---- MODULE Spec2Model ----
(***************************************************************************)
(* Model of the hierarchy engine of the capacity-planning UI               *)
(* (data/hierarchy.ts): the org tree lives in a heap of objects, the       *)
(* update functions allocate new objects and return a new root, the        *)
(* rollup queries read the tree.                                           *)
(*                                                                         *)
(* A JavaScript object is an address into `heap`; an optional value        *)
(* (number | null, OrgNode[] | undefined) is the empty tuple when absent   *)
(* and a one-element tuple holding the value when present.                 *)
(*                                                                         *)
(* Specifications: Spec applies the engine's functions to a family of      *)
(* input trees; TerritorySpec is the territory page (handleOptimize, with  *)
(* the double arithmetic of its shares) over the built-in hierarchy with   *)
(* any small validated capacities of the territory owners, and NearSpec    *)
(* the same page over capacities of the size of the built-in ones; AppSpec *)
(* is the capacity page, whose editable cells parse a draft and update the *)
(* tree, and EditorSpec adds the commits of the draft a click puts into a  *)
(* cell; SiteSpec is the application: both pages, navigation between them  *)
(* and the tree that App keeps.                                            *)
(***************************************************************************)
EXTENDS Integers, Sequences, FiniteSets, TLC

VARIABLES heap, root, prev, call, shown, ncalls, territoryData, optimized, showBanner,
          currentPage, appTree, selectedIds

vars == <<heap, root, prev, call, shown, ncalls, territoryData, optimized, showBanner,
          currentPage, appTree, selectedIds>>

----------------------------------------------------------------------------
(* Bounds of the model *)

\* headcounts of the input trees range over 0..MaxHC
MaxHC == 1
\* validated capacities of the input trees range over null and 0..MaxVC
MaxVC == 1
\* number of update calls in one behaviour
MaxCalls == 2
\* validated capacities of the territory owners range over null and 0..MaxW
MaxW == 4

----------------------------------------------------------------------------
(* Optional values *)

Null == <<>>

Undefined == <<>>

Some(v) == <<v>>

\* an id that no node of any input tree carries
AbsentId == "none"

----------------------------------------------------------------------------
(* OrgNode objects and the heap *)

\* types.ts OrgNode: the fields the engine and its callers read or write
OrgNode(id, role, headcount, validatedCapacity, depth, children) ==
  [ id |-> id, name |-> id, role |-> role,
    targetCapacity |-> 0, headcount |-> headcount, expectedCapacity |-> 0,
    validatedCapacity |-> validatedCapacity, difference |-> 0,
    depth |-> depth, children |-> children ]

\* a new object: { ... }
Alloc(h, rec) == [heap |-> Append(h, rec), addr |-> Len(h) + 1]

\* node.children as a list; an undefined children reads as no list
Kids(n) == IF n.children = Undefined THEN <<>> ELSE n.children[1]

\* !node.children || node.children.length === 0
NoChildren(n) == n.children = Undefined \/ Len(n.children[1]) = 0

----------------------------------------------------------------------------
(* getRolledUpHeadcount *)

RECURSIVE getRolledUpHeadcount(_, _)
RECURSIVE ReduceRolledUpHeadcount(_, _, _)

\* node.children.reduce((sum, child) => sum + getRolledUpHeadcount(child), 0)
ReduceRolledUpHeadcount(h, kids, sum) ==
  IF kids = <<>> THEN sum
  ELSE ReduceRolledUpHeadcount(h, Tail(kids), sum + getRolledUpHeadcount(h, Head(kids)))

\* variant: reads the stored headcount of a node with children
getRolledUpHeadcountStored(h, node) == h[node].headcount

getRolledUpHeadcount(h, node) ==
  IF NoChildren(h[node]) THEN h[node].headcount
  ELSE ReduceRolledUpHeadcount(h, Kids(h[node]), 0)

----------------------------------------------------------------------------
(* getRolledUpValidatedCapacity *)

RECURSIVE getRolledUpValidatedCapacity(_, _)
RECURSIVE LoopRolledUpValidatedCapacity(_, _, _, _)

\* variant: if (childVal) in place of if (childVal !== null)
LoopRolledUpValidatedCapacityTruthy(h, kids, total, hasAny) ==
  IF kids = <<>> THEN (IF hasAny THEN Some(total) ELSE Null)
  ELSE LET childVal == getRolledUpValidatedCapacity(h, Head(kids))
       IN IF childVal # Null /\ childVal[1] # 0
          THEN LoopRolledUpValidatedCapacity(h, Tail(kids), total + childVal[1], TRUE)
          ELSE LoopRolledUpValidatedCapacity(h, Tail(kids), total, hasAny)

\* for (const child of node.children) { ... }  return hasAny ? total : null
LoopRolledUpValidatedCapacity(h, kids, total, hasAny) ==
  IF kids = <<>> THEN (IF hasAny THEN Some(total) ELSE Null)
  ELSE LET childVal == getRolledUpValidatedCapacity(h, Head(kids))
       IN IF childVal # Null
          THEN LoopRolledUpValidatedCapacity(h, Tail(kids), total + childVal[1], TRUE)
          ELSE LoopRolledUpValidatedCapacity(h, Tail(kids), total, hasAny)

getRolledUpValidatedCapacity(h, node) ==
  IF NoChildren(h[node]) THEN h[node].validatedCapacity
  ELSE LoopRolledUpValidatedCapacity(h, Kids(h[node]), 0, FALSE)

----------------------------------------------------------------------------
(* updateNodeInTree *)

\* (n) => ({ ...n, <field>: <value> }): the updaters the callers pass
Updater(field, value) == [field |-> field, value |-> value]

\* { ...root }: a shallow copy, a new object with the same field values
Spread(h, node) == Alloc(h, h[node])

\* updater(n) for an updater (n) => ({ ...n, field: value })
ApplyUpdater(h, n, updater) ==
  Alloc(h, [h[n] EXCEPT ![updater.field] = updater.value])

\* variant: root.children = <mapped children>; return root
RebuildWithChildrenInPlace(h, node, children) ==
  [heap |-> [h EXCEPT ![node].children = Some(children)], addr |-> node]

\* { ...root, children: <mapped children> }
RebuildWithChildren(h, node, children) ==
  Alloc(h, [h[node] EXCEPT !.children = Some(children)])

RECURSIVE updateNodeInTree(_, _, _, _)
RECURSIVE MapUpdateNodeInTree(_, _, _, _)
RECURSIVE MapUpdateNodeInTreeReversed(_, _, _, _)

\* variant: the mapped children are collected with unshift, last child first
MapUpdateNodeInTreeReversed(h, kids, nodeId, updater) ==
  IF kids = <<>> THEN [heap |-> h, addrs |-> <<>>, calls |-> 0]
  ELSE LET first == updateNodeInTree(h, Head(kids), nodeId, updater)
           rest == MapUpdateNodeInTreeReversed(first.heap, Tail(kids), nodeId, updater)
       IN [heap |-> rest.heap, addrs |-> rest.addrs \o <<first.addr>>,
           calls |-> first.calls + rest.calls]

\* root.children.map((child) => updateNodeInTree(child, nodeId, updater))
MapUpdateNodeInTree(h, kids, nodeId, updater) ==
  IF kids = <<>> THEN [heap |-> h, addrs |-> <<>>, calls |-> 0]
  ELSE LET first == updateNodeInTree(h, Head(kids), nodeId, updater)
           rest == MapUpdateNodeInTree(first.heap, Tail(kids), nodeId, updater)
       IN [heap |-> rest.heap, addrs |-> <<first.addr>> \o rest.addrs,
           calls |-> first.calls + rest.calls]

\* variant: if (!root.children) return updater({ ...root })
updateNodeInTreeLeafFallback(h, node, nodeId, updater) ==
  IF h[node].id = nodeId \/ h[node].children = Undefined
  THEN LET copy == Spread(h, node)
           res == ApplyUpdater(copy.heap, copy.addr, updater)
       IN [heap |-> res.heap, addr |-> res.addr, calls |-> 1]
  ELSE LET m == MapUpdateNodeInTree(h, Kids(h[node]), nodeId, updater)
           obj == RebuildWithChildren(m.heap, node, m.addrs)
       IN [heap |-> obj.heap, addr |-> obj.addr, calls |-> m.calls]

\* returns the heap after the call, the returned object and the number of
\* times the updater was invoked
updateNodeInTree(h, node, nodeId, updater) ==
  IF h[node].id = nodeId
  THEN LET copy == Spread(h, node)
           res == ApplyUpdater(copy.heap, copy.addr, updater)
       IN [heap |-> res.heap, addr |-> res.addr, calls |-> 1]
  ELSE IF h[node].children = Undefined
  THEN [heap |-> h, addr |-> node, calls |-> 0]
  ELSE LET m == MapUpdateNodeInTree(h, Kids(h[node]), nodeId, updater)
           obj == RebuildWithChildren(m.heap, node, m.addrs)
       IN [heap |-> obj.heap, addr |-> obj.addr, calls |-> m.calls]

----------------------------------------------------------------------------
(* recalcParentHeadcounts and updateHeadcountAndRollUp *)

RECURSIVE SumHeadcount(_, _, _)

\* updatedChildren.reduce((s, c) => s + c.headcount, 0)
SumHeadcount(h, kids, s) ==
  IF kids = <<>> THEN s
  ELSE SumHeadcount(h, Tail(kids), s + h[Head(kids)].headcount)

\* variant: { ...node, children: updatedChildren }, the sum is dropped
RebuildWithSumDropped(h, node, updatedChildren, sum) ==
  Alloc(h, [h[node] EXCEPT !.children = Some(updatedChildren)])

\* variant: headcount: node.headcount + sum
RebuildWithSumAccumulated(h, node, updatedChildren, sum) ==
  Alloc(h, [h[node] EXCEPT !.children = Some(updatedChildren),
                           !.headcount = h[node].headcount + sum])

\* variant: the stored expectedCapacity is refreshed together with the headcount
RebuildWithSumAndExpected(h, node, updatedChildren, sum) ==
  Alloc(h, [h[node] EXCEPT !.children = Some(updatedChildren), !.headcount = sum,
                           !.expectedCapacity = sum * 1000])

\* { ...node, children: updatedChildren, headcount: sum }
RebuildWithSum(h, node, updatedChildren, sum) ==
  Alloc(h, [h[node] EXCEPT !.children = Some(updatedChildren), !.headcount = sum])

RECURSIVE recalcParentHeadcounts(_, _)
RECURSIVE MapRecalcParentHeadcounts(_, _)

\* node.children.map(recalcParentHeadcounts)
MapRecalcParentHeadcounts(h, kids) ==
  IF kids = <<>> THEN [heap |-> h, addrs |-> <<>>]
  ELSE LET first == recalcParentHeadcounts(h, Head(kids))
           rest == MapRecalcParentHeadcounts(first.heap, Tail(kids))
       IN [heap |-> rest.heap, addrs |-> <<first.addr>> \o rest.addrs]

recalcParentHeadcounts(h, node) ==
  IF NoChildren(h[node]) THEN [heap |-> h, addr |-> node]
  ELSE LET m == MapRecalcParentHeadcounts(h, Kids(h[node]))
       IN RebuildWithSum(m.heap, node, m.addrs, SumHeadcount(m.heap, m.addrs, 0))

\* variant: step 2, the recalculation, is left out
updateHeadcountOnly(h, node, nodeId, newHeadcount) ==
  updateNodeInTree(h, node, nodeId, Updater("headcount", newHeadcount))

updateHeadcountAndRollUp(h, node, nodeId, newHeadcount) ==
  LET updated == updateNodeInTree(h, node, nodeId, Updater("headcount", newHeadcount))
      recalc == recalcParentHeadcounts(updated.heap, updated.addr)
  IN [heap |-> recalc.heap, addr |-> recalc.addr, calls |-> updated.calls]

----------------------------------------------------------------------------
(* flattenTree: the nodes of a tree in pre-order *)

RECURSIVE flattenTree(_, _)
RECURSIVE FlattenChildren(_, _)

FlattenChildren(h, kids) ==
  IF kids = <<>> THEN <<>>
  ELSE flattenTree(h, Head(kids)) \o FlattenChildren(h, Tail(kids))

flattenTree(h, node) == <<node>> \o FlattenChildren(h, Kids(h[node]))

----------------------------------------------------------------------------
(* Input trees *)

Shapes == {"family", "pair", "leaf"}

\* children of every node of a shape, by address; the root is address 1.
\* "family": root 1 -> [2, 3], 2 -> [4, 5], 3 -> [6]; node 5 carries an empty
\* children array, nodes 4 and 6 carry none.
\* "pair": root 1 -> [2, 3], both leaves.  "leaf": a single node.
ShapeChildren(s) ==
  CASE s = "family" -> << Some(<<2, 3>>), Some(<<4, 5>>), Some(<<6>>),
                          Undefined, Some(<<>>), Undefined >>
    [] s = "pair"   -> << Some(<<2, 3>>), Undefined, Undefined >>
    [] s = "leaf"   -> << Undefined >>

ShapeDepth(s) ==
  CASE s = "family" -> <<0, 1, 1, 2, 2, 2>>
    [] s = "pair"   -> <<0, 1, 1>>
    [] s = "leaf"   -> <<0>>

ShapeSize(s) == Len(ShapeChildren(s))

ShapeIsLeaf(s, a) ==
  ShapeChildren(s)[a] = Undefined \/ ShapeChildren(s)[a][1] = <<>>

IdOf == <<"n1", "n2", "n3", "n4", "n5", "n6">>

UniqueIds(s) == [a \in 1..ShapeSize(s) |-> IdOf[a]]

\* <<a, b>>: node a carries the id of node b
DupPairs == {<<4, 2>>, <<6, 4>>, <<3, 2>>, <<2, 1>>}

\* the unique labelling, and the labellings in which one node repeats the
\* id of another
Labelings(s) ==
  {UniqueIds(s)} \cup
  {[UniqueIds(s) EXCEPT ![d[1]] = IdOf[d[2]]] : d \in {e \in DupPairs : e[1] <= ShapeSize(s)}}

HCs == 0..MaxHC

VCs == {Null} \cup {Some(v) : v \in 0..MaxVC}

RECURSIVE ShapeRollUp(_, _)

\* the headcount of node a when every leaf has headcount 1
ShapeRollUp(s, a) ==
  IF ShapeIsLeaf(s, a) THEN 1
  ELSE LET kids == ShapeChildren(s)[a][1]
           F[i \in 0..Len(kids)] == IF i = 0 THEN 0 ELSE F[i - 1] + ShapeRollUp(s, kids[i])
       IN F[Len(kids)]

DefaultHC(s) == [a \in 1..ShapeSize(s) |-> ShapeRollUp(s, a)]

DefaultVC(s) == [a \in 1..ShapeSize(s) |-> IF ShapeIsLeaf(s, a) THEN Some(1) ELSE Null]

\* validated capacities: any value on the leaves, one common value (null as
\* in the built-in hierarchy, or a number) on the nodes with children
VCAssignments(s) ==
  {vc \in [1..ShapeSize(s) -> VCs] :
     \A a \in 1..ShapeSize(s) :
        ~ShapeIsLeaf(s, a) => vc[a] \in {Null, Some(MaxVC)} /\ vc[a] = vc[1]}

BuildHeap(s, ids, hc, vc) ==
  [a \in 1..ShapeSize(s) |->
     OrgNode(ids[a], IF ShapeIsLeaf(s, a) THEN "AE" ELSE "RVP",
             hc[a], vc[a], ShapeDepth(s)[a], ShapeChildren(s)[a])]

\* the input trees: under the unique labelling every headcount assignment
\* (rollup satisfied or not) and every validated-capacity assignment, and the
\* tree that satisfies the rollup under every labelling that repeats an id
InputHeaps ==
  UNION {
    {BuildHeap(s, UniqueIds(s), hc, DefaultVC(s)) : hc \in [1..ShapeSize(s) -> HCs]}
    \cup
    {BuildHeap(s, ids, DefaultHC(s), DefaultVC(s)) : ids \in Labelings(s)}
    \cup
    {BuildHeap(s, UniqueIds(s), DefaultHC(s), vc) : vc \in VCAssignments(s)}
    : s \in Shapes}

----------------------------------------------------------------------------
(* The calls *)

\* the ids a call may name: those of the nodes of the tree, and an absent one
NodeIds(h, r) == {AbsentId} \cup {h[flattenTree(h, r)[i]].id : i \in 1..Len(flattenTree(h, r))}

NewHeadcounts == {-1, 0, MaxHC + 1}

\* TreeTable.tsx: (n) => ({ ...n, targetCapacity: v }) and
\* (n) => ({ ...n, validatedCapacity: v })
FieldUpdaters == {Updater("targetCapacity", 1), Updater("validatedCapacity", Some(0))}

(* The numbers of the territory page are IEEE-754 doubles. A positive double is
   a record [m, e]: m is its significand, six limbs of nine bits, most
   significant limb first, the first bit 1 and the last bit 0 (53 bits), and its
   value is 0.m (in base 512) times 2^e. Zero has no limbs. The operators below
   produce the correctly rounded results (round to nearest, ties to even) of
   the divisions and multiplications handleOptimize does. *)

Pow2(s) == <<1, 2, 4, 8, 16, 32, 64, 128, 256, 512>>[s + 1]

\* bits of a limb
LimbBits == 9

Base == Pow2(LimbBits)

\* limbs of a significand: 53 bits and the bit that decides the rounding
Limbs == 6

Zero == [m |-> <<>>, e |-> 0]

RECURSIVE AddOne(_)

\* limbs + 1 in the last place; all ones wrap to all zeros
AddOne(limbs) ==
  IF limbs = <<>> THEN <<>>
  ELSE LET n == Len(limbs)
       IN IF limbs[n] + 1 < Base THEN [limbs EXCEPT ![n] = @ + 1]
          ELSE Append(AddOne(SubSeq(limbs, 1, n - 1)), 0)

\* the double nearest to 0.limbs * 2^e, where the first bit of limbs is 1 and
\* there are at least Limbs limbs; sticky says that a 1 follows beyond them
RoundToDouble(limbs, e, sticky) ==
  LET guard == limbs[Limbs] % 2
      lsb   == (limbs[Limbs] \div 2) % 2
      rest  == sticky \/ \E i \in (Limbs + 1)..Len(limbs) : limbs[i] # 0
      kept  == [SubSeq(limbs, 1, Limbs) EXCEPT ![Limbs] = @ - guard]
      up    == guard = 1 /\ (rest \/ lsb = 1)
      inc   == AddOne(AddOne(kept))
  IN IF ~up THEN [m |-> kept, e |-> e]
     ELSE IF inc[1] # 0 THEN [m |-> inc, e |-> e]
     ELSE [m |-> [inc EXCEPT ![1] = Base \div 2], e |-> e + 1]

RECURSIVE QuotientLimbs(_, _, _)

\* the first n limbs of the expansion of r / d in base 512 (0 <= r < d),
\* and the remainder left after them
QuotientLimbs(r, d, n) ==
  IF n = 0 THEN [limbs |-> <<>>, r |-> r]
  ELSE LET next == QuotientLimbs((r * Base) % d, d, n - 1)
       IN [limbs |-> <<(r * Base) \div d>> \o next.limbs, r |-> next.r]

RECURSIVE Divide(_, _, _)

\* the double c / d for integers c >= 0 and d > 0, e the exponent found so far
Divide(c, d, e) ==
  IF c = 0 THEN Zero
  ELSE IF c >= d THEN Divide(c, 2 * d, e + 1)
  ELSE IF 2 * c < d THEN Divide(2 * c, d, e - 1)
  ELSE LET q == QuotientLimbs(c, d, Limbs)
       IN RoundToDouble(q.limbs, e, q.r > 0)

RECURSIVE ProductLimbs(_, _, _)

\* the limbs of (limbs as an integer) * k + carry, two limbs longer than limbs
ProductLimbs(limbs, k, carry) ==
  IF limbs = <<>> THEN <<carry \div Base, carry % Base>>
  ELSE LET n == Len(limbs)
           t == limbs[n] * k + carry
       IN Append(ProductLimbs(SubSeq(limbs, 1, n - 1), k, t \div Base), t % Base)

\* limbs moved s bits (0 <= s < 9) to the left, the bits pushed out dropped
ShiftLeft(limbs, s) ==
  [i \in 1..Len(limbs) |->
     ((limbs[i] * Pow2(s)) % Base)
       + (IF i < Len(limbs) THEN (limbs[i + 1] \div Pow2(LimbBits - s)) ELSE 0)]

\* limbs moved s bits (0 <= s < 9) to the right, one limb longer
ShiftRight(limbs, s) ==
  [i \in 1..(Len(limbs) + 1) |->
     (IF i > 1 THEN (limbs[i - 1] % Pow2(s)) * Pow2(LimbBits - s) ELSE 0)
       + (IF i <= Len(limbs) THEN (limbs[i] \div Pow2(s)) ELSE 0)]

\* the double x * k for a double x and an integer 0 < k < 512 * 512
Multiply(x, k) ==
  IF x = Zero THEN Zero
  ELSE LET p == ProductLimbs(x.m, k, 0)
           j == CHOOSE i \in 1..Len(p) : p[i] # 0 /\ \A h \in 1..(i - 1) : p[h] = 0
           s == CHOOSE t \in 0..(LimbBits - 1) :
                  Pow2(LimbBits - 1 - t) <= p[j] /\ p[j] < Pow2(LimbBits - t)
       IN RoundToDouble(ShiftLeft(SubSeq(p, j, Len(p)), s),
                        x.e + 2 * LimbBits - (LimbBits * (j - 1) + s), FALSE)

\* Math.floor(x) for a double 0 <= x < 2^53
Floor(x) ==
  IF x = Zero \/ x.e <= 0 THEN 0
  ELSE LET a == x.e \div LimbBits
           b == x.e % LimbBits
           F[i \in 0..a] == IF i = 0 THEN 0 ELSE F[i - 1] * Base + x.m[i]
       IN F[a] * Pow2(b) + (x.m[a + 1] \div Pow2(LimbBits - b))

\* x - Math.floor(x) for a double 0 <= x < 2^53: the limbs of x behind the
\* point (this subtraction is exact in doubles)
Frac(x) ==
  IF x = Zero THEN <<>>
  ELSE IF x.e <= 0
  THEN [i \in 1..((0 - x.e) \div LimbBits) |-> 0] \o ShiftRight(x.m, (0 - x.e) % LimbBits)
  ELSE ShiftLeft(SubSeq(x.m, (x.e \div LimbBits) + 1, Limbs), x.e % LimbBits)

RECURSIVE FracLess(_, _)

\* a < b for two fractions given by their limbs behind the point
FracLess(a, b) ==
  IF b = <<>> THEN FALSE
  ELSE IF a = <<>> THEN \E i \in 1..Len(b) : b[i] # 0
  ELSE IF a[1] # b[1] THEN a[1] < b[1]
  ELSE FracLess(Tail(a), Tail(b))

\* the pools handleOptimize distributes
TOTAL_UNITS == 1000

TOTAL_TAM == 12000

\* the territory rows of a freshly mounted territory page
TerritoryRow(id, owner, units, tam) == [id |-> id, owner |-> owner, units |-> units, tam |-> tam]

initialTerritoryData ==
  << TerritoryRow("t1", "AE1", Null, Null),
     TerritoryRow("t2", "AE2", Null, Null),
     TerritoryRow("t5", "AE5", Null, Null),
     TerritoryRow("t6", "AE6", Null, Null),
     TerritoryRow("unassigned", "", Some(1000), Some(12000)) >>

\* the built-in hierarchy: CRO, SVP, AVP, two RVPs and four AEs under each
orgHierarchy ==
  LET AE(id, name, vc) == [OrgNode(id, "AE", 1, Some(vc), 4, Undefined) EXCEPT !.name = name]
      Mgr(id, name, role, hc, depth, kids) ==
        [OrgNode(id, role, hc, Null, depth, Some(kids)) EXCEPT !.name = name]
  IN << Mgr("cro", "CRO", "CRO", 8, 0, <<2>>),
        Mgr("svp-amer", "SVP AMER", "SVP", 8, 1, <<3>>),
        Mgr("amer-industries-avp", "AMER Industries AVP", "AVP", 8, 2, <<4, 9>>),
        Mgr("rvp-us", "RVP US", "RVP", 4, 3, <<5, 6, 7, 8>>),
        AE("ae1", "AE1", 1200), AE("ae2", "AE2", 1150),
        AE("ae3", "AE3", 1100), AE("ae4", "AE4", 1050),
        Mgr("rvp-canada", "RVP Canada", "RVP", 4, 3, <<10, 11, 12, 13>>),
        AE("ae5", "AE5", 1200), AE("ae6", "AE6", 1150),
        AE("ae7", "AE7", 1100), AE("ae8", "AE8", 1050) >>

----------------------------------------------------------------------------
(* flattenAEs and handleOptimize of the territory page *)

\* map.set(key, value) on a Map, a function from its keys
MapSet(map, key, value) ==
  [k \in (DOMAIN map) \cup {key} |-> IF k = key THEN value ELSE map[k]]

RECURSIVE walk(_, _, _)
RECURSIVE WalkChildren(_, _, _)

\* n.children?.forEach((child) => walk(child, n))
WalkChildren(h, kids, map) ==
  IF kids = <<>> THEN map
  ELSE WalkChildren(h, Tail(kids), walk(h, Head(kids), map))

\* the walk of flattenAEs: an AE is entered under its name (the label of its
\* parent, which only the display reads, is left out)
walk(h, n, map) ==
  WalkChildren(h, Kids(h[n]),
               IF h[n].role = "AE"
               THEN MapSet(map, h[n].name, [validatedCapacity |-> h[n].validatedCapacity])
               ELSE map)

flattenAEs(h, node) == walk(h, node, <<>>)

\* aeInfoMap.get(t.owner)?.validatedCapacity ?? 0
CapacityOf(aeInfoMap, owner) ==
  IF owner \notin DOMAIN aeInfoMap THEN 0
  ELSE IF aeInfoMap[owner].validatedCapacity = Null THEN 0
  ELSE aeInfoMap[owner].validatedCapacity[1]

\* xs.reduce((s, v) => s + v, 0)
Sum(xs) ==
  LET F[i \in 0..Len(xs)] == IF i = 0 THEN 0 ELSE F[i - 1] + xs[i]
  IN F[Len(xs)]

\* capacities.map((c) => (c / totalCapacity) * pool)
Raw(capacities, totalCapacity, pool) ==
  [i \in 1..Len(capacities) |-> Multiply(Divide(capacities[i], totalCapacity, 0), pool)]

RECURSIVE InsertByFracAscending(_, _)

\* variant: the comparison of the sort is a.frac - b.frac, smallest frac first
InsertByFracAscending(sorted, x) ==
  IF sorted = <<>> THEN <<x>>
  ELSE IF FracLess(x.frac, Head(sorted).frac) THEN <<x>> \o sorted
  ELSE <<Head(sorted)>> \o InsertByFracAscending(Tail(sorted), x)

RECURSIVE InsertByFrac(_, _)

\* x placed behind every entry whose frac is not smaller than its own
InsertByFrac(sorted, x) ==
  IF sorted = <<>> THEN <<x>>
  ELSE IF FracLess(Head(sorted).frac, x.frac) THEN <<x>> \o sorted
  ELSE <<Head(sorted)>> \o InsertByFrac(Tail(sorted), x)

\* fractionals.sort((a, b) => b.frac - a.frac): a stable sort, largest frac first
SortByFrac(fractionals) ==
  LET F[i \in 0..Len(fractionals)] ==
        IF i = 0 THEN <<>> ELSE InsertByFrac(F[i - 1], fractionals[i])
  IN F[Len(fractionals)]

\* variant: the leftover of the pool is not handed out
IncrementLeadersNone(floored, fractionals, remaining) == floored

\* variant: the whole leftover goes to the row with the largest frac
IncrementLeadersFirstOnly(floored, fractionals, remaining) ==
  IF remaining <= 0 THEN floored
  ELSE [floored EXCEPT ![fractionals[1].i] = @ + remaining]

\* variant: the leftover goes to the first rows in input order
IncrementLeadersInRowOrder(floored, fractionals, remaining) ==
  [i \in 1..Len(floored) |-> IF i <= remaining THEN floored[i] + 1 ELSE floored[i]]

\* for (let k = 0; k < remaining; k++) floored[fractionals[k].i]++
IncrementLeaders(floored, fractionals, remaining) ==
  [i \in 1..Len(floored) |->
     IF \E k \in 1..remaining : fractionals[k].i = i THEN floored[i] + 1 ELSE floored[i]]

\* the rounding of one pool: floors, leftover, sort by frac, one more for the
\* leaders
RoundToPool(raw, pool) ==
  LET floored     == [i \in 1..Len(raw) |-> Floor(raw[i])]
      remaining   == pool - Sum(floored)
      fractionals == [i \in 1..Len(raw) |-> [i |-> i, frac |-> Frac(raw[i])]]
  IN IncrementLeaders(floored, SortByFrac(fractionals), remaining)

\* the rows before index i that are not the unassigned row: aeIndex++
AeIndex(data, i) == Cardinality({j \in 1..i : data[j].id # "unassigned"})

\* variant: the unassigned row is handed back as it is
BuildUpdatedKeepUnassigned(data, flooredUnits, flooredTam) ==
  [r \in 1..Len(data) |->
     IF data[r].id = "unassigned" THEN data[r]
     ELSE [data[r] EXCEPT !.units = Some(flooredUnits[AeIndex(data, r)]),
                          !.tam = Some(flooredTam[AeIndex(data, r)])]]

\* territoryData.map((row) => ...): the unassigned row gets 0 and 0, the other
\* rows their units and tam in order
BuildUpdated(data, flooredUnits, flooredTam) ==
  [r \in 1..Len(data) |->
     IF data[r].id = "unassigned" THEN [data[r] EXCEPT !.units = Some(0), !.tam = Some(0)]
     ELSE [data[r] EXCEPT !.units = Some(flooredUnits[AeIndex(data, r)]),
                          !.tam = Some(flooredTam[AeIndex(data, r)])]]

\* territoryData.filter((t) => t.id !== 'unassigned')
AeRows(data) == SelectSeq(data, LAMBDA t : t.id # "unassigned")

Capacities(data, aeInfoMap) ==
  [i \in 1..Len(AeRows(data)) |-> CapacityOf(aeInfoMap, AeRows(data)[i].owner)]

\* lines 105-135 of handleOptimize: both pools rounded, the rows rebuilt
Allocation(data, capacities, totalCapacity) ==
  BuildUpdated(data,
               RoundToPool(Raw(capacities, totalCapacity, TOTAL_UNITS), TOTAL_UNITS),
               RoundToPool(Raw(capacities, totalCapacity, TOTAL_TAM), TOTAL_TAM))

\* variant: a total capacity of 0 yields an allocation of 0 for every row
handleOptimizeZeroForAll(data, aeInfoMap) ==
  LET capacities    == Capacities(data, aeInfoMap)
      totalCapacity == Sum(capacities)
      zeros         == [i \in 1..Len(capacities) |-> 0]
  IN [returned |-> FALSE,
      updated  |-> IF totalCapacity = 0 THEN BuildUpdated(data, zeros, zeros)
                   ELSE Allocation(data, capacities, totalCapacity)]

\* handleOptimize up to its setters: returned says that it left at
\* "if (totalCapacity === 0) return", updated is the value for setTerritoryData
handleOptimize(data, aeInfoMap) ==
  LET capacities    == Capacities(data, aeInfoMap)
      totalCapacity == Sum(capacities)
  IN IF totalCapacity = 0 THEN [returned |-> TRUE, updated |-> data]
     ELSE [returned |-> FALSE, updated |-> Allocation(data, capacities, totalCapacity)]

NoCall == [op |-> "none", nodeId |-> AbsentId, updater |-> Updater("headcount", 0), calls |-> 0]

Init ==
  /\ heap \in InputHeaps
  /\ root = 1
  /\ prev = [heap |-> heap, root |-> root]
  /\ call = NoCall
  /\ shown = <<>>
  /\ ncalls = 0
  /\ territoryData = initialTerritoryData
  /\ optimized = FALSE
  /\ showBanner = TRUE
  /\ currentPage = "capacity"
  /\ appTree = root
  /\ selectedIds = {"t1", "t2"}

\* a caller replaces its tree by updateNodeInTree(tree, nodeId, updater)
UpdateNodeInTree(nodeId, updater) ==
  /\ ncalls < MaxCalls
  /\ LET r == updateNodeInTree(heap, root, nodeId, updater)
     IN /\ heap' = r.heap
        /\ root' = r.addr
        /\ call' = [op |-> "updateNodeInTree", nodeId |-> nodeId,
                    updater |-> updater, calls |-> r.calls]
  /\ prev' = [heap |-> heap, root |-> root]
  /\ shown' = <<>>
  /\ ncalls' = ncalls + 1
  /\ UNCHANGED <<territoryData, optimized, showBanner, currentPage, appTree, selectedIds>>

\* a caller replaces its tree by updateHeadcountAndRollUp(tree, nodeId, v)
UpdateHeadcountAndRollUp(nodeId, newHeadcount) ==
  /\ ncalls < MaxCalls
  /\ LET r == updateHeadcountAndRollUp(heap, root, nodeId, newHeadcount)
     IN /\ heap' = r.heap
        /\ root' = r.addr
        /\ call' = [op |-> "updateHeadcountAndRollUp", nodeId |-> nodeId,
                    updater |-> Updater("headcount", newHeadcount), calls |-> r.calls]
  /\ prev' = [heap |-> heap, root |-> root]
  /\ shown' = <<>>
  /\ ncalls' = ncalls + 1
  /\ UNCHANGED <<territoryData, optimized, showBanner, currentPage, appTree, selectedIds>>

\* the rollup queries, applied to every node of the current tree
RollUp ==
  /\ shown = <<>>
  /\ LET flat == flattenTree(heap, root)
     IN shown' = [i \in 1..Len(flat) |->
                   [node |-> flat[i],
                    headcount |-> getRolledUpHeadcount(heap, flat[i]),
                    validatedCapacity |-> getRolledUpValidatedCapacity(heap, flat[i])]]
  /\ UNCHANGED <<heap, root, prev, call, ncalls, territoryData, optimized, showBanner,
               currentPage, appTree, selectedIds>>

Next ==
  \/ \E nodeId \in NodeIds(heap, root), updater \in FieldUpdaters : UpdateNodeInTree(nodeId, updater)
  \/ \E nodeId \in NodeIds(heap, root), v \in NewHeadcounts : UpdateHeadcountAndRollUp(nodeId, v)
  \/ RollUp

Spec == Init /\ [][Next]_vars

----------------------------------------------------------------------------
(* The territory page over a hierarchy whose territory owners have any
   validated capacities *)

Weights == {Null} \cup {Some(v) : v \in 0..MaxW}

\* the addresses of AE1, AE2, AE5 and AE6, the owners of the territory rows
OwnerAddrs == <<5, 6, 10, 11>>

\* the built-in hierarchy with the validated capacities w of the four owners
HierarchyWith(w) ==
  [a \in 1..Len(orgHierarchy) |->
     IF \E i \in 1..4 : OwnerAddrs[i] = a
     THEN [orgHierarchy[a] EXCEPT
             !.validatedCapacity = w[CHOOSE i \in 1..4 : OwnerAddrs[i] = a]]
     ELSE orgHierarchy[a]]

\* hierarchy h without AE6, the owner of the last territory row
WithoutOwner(h) == [h EXCEPT ![9].children = Some(<<10, 12, 13>>)]

Snapshot ==
  [heap |-> heap, root |-> root, territoryData |-> territoryData,
   optimized |-> optimized, showBanner |-> showBanner,
   currentPage |-> currentPage, appTree |-> appTree, selectedIds |-> selectedIds]

TerritoryInit ==
  /\ heap \in {orgHierarchy} \cup {HierarchyWith(w) : w \in [1..4 -> Weights]}
              \cup {WithoutOwner(HierarchyWith(w)) :
                      w \in {v \in [1..4 -> Weights] : v[4] = Null}}
  /\ root = 1
  /\ territoryData = initialTerritoryData
  /\ optimized = FALSE
  /\ showBanner = TRUE
  /\ currentPage = "territory"
  /\ appTree = root
  /\ selectedIds = {"t1", "t2"}
  /\ prev = [heap |-> heap, root |-> root, territoryData |-> territoryData,
             optimized |-> optimized, showBanner |-> showBanner,
             currentPage |-> currentPage, appTree |-> appTree, selectedIds |-> selectedIds]
  /\ call = NoCall
  /\ shown = <<>>
  /\ ncalls = 0

\* variant: the handler also records the pool on the root of orgData
OptimizeWritesBack ==
  /\ ncalls < MaxCalls
  /\ LET r == handleOptimize(territoryData, flattenAEs(heap, appTree))
     IN IF r.returned
        THEN UNCHANGED <<territoryData, optimized, showBanner, heap>>
        ELSE /\ territoryData' = r.updated
             /\ optimized' = TRUE
             /\ showBanner' = TRUE
             /\ heap' = [heap EXCEPT ![appTree].targetCapacity = TOTAL_UNITS]
  /\ prev' = Snapshot
  /\ call' = [NoCall EXCEPT !.op = "handleOptimize"]
  /\ ncalls' = ncalls + 1
  /\ UNCHANGED <<root, shown, currentPage, appTree, selectedIds>>

\* a click on Optimize: handleOptimize with the aeInfoMap of the hierarchy
Optimize ==
  /\ ncalls < MaxCalls
  /\ LET r == handleOptimize(territoryData, flattenAEs(heap, appTree))
     IN IF r.returned
        THEN UNCHANGED <<territoryData, optimized, showBanner>>
        ELSE /\ territoryData' = r.updated
             /\ optimized' = TRUE
             /\ showBanner' = TRUE
  /\ prev' = Snapshot
  /\ call' = [NoCall EXCEPT !.op = "handleOptimize"]
  /\ ncalls' = ncalls + 1
  /\ UNCHANGED <<heap, root, shown, currentPage, appTree, selectedIds>>

\* a click on the close button of the banner
CloseBanner ==
  /\ showBanner
  /\ showBanner' = FALSE
  /\ UNCHANGED <<heap, root, prev, call, shown, ncalls, territoryData, optimized,
               currentPage, appTree, selectedIds>>

TerritoryNext == Optimize \/ CloseBanner

TerritorySpec == TerritoryInit /\ [][TerritoryNext]_vars

\* validated capacities of the size of the built-in ones, close to each other,
\* next to capacities 0 and 1
NearWeights == {Some(0), Some(1), Some(1150), Some(1199), Some(1200)}

\* the territory page mounted over the built-in hierarchy with such capacities
NearInit ==
  /\ heap \in {HierarchyWith(w) : w \in [1..4 -> NearWeights]}
  /\ root = 1
  /\ territoryData = initialTerritoryData
  /\ optimized = FALSE
  /\ showBanner = TRUE
  /\ currentPage = "territory"
  /\ appTree = root
  /\ selectedIds = {"t1", "t2"}
  /\ prev = Snapshot
  /\ call = NoCall
  /\ shown = <<>>
  /\ ncalls = 0

NearSpec == NearInit /\ [][TerritoryNext]_vars

----------------------------------------------------------------------------
(* The capacity page: the editable cells of the tree table over the built-in
   hierarchy *)

CAPACITY_PER_HC == 1000

\* node.headcount * CAPACITY_PER_HC
getExpectedCapacity(h, node) == h[node].headcount * CAPACITY_PER_HC

Digits == <<"0", "1", "2", "3", "4", "5", "6", "7", "8", "9">>

IsDigit(c) == \E d \in 1..Len(Digits) : Digits[d] = c

DigitValue(c) == (CHOOSE d \in 1..Len(Digits) : Digits[d] = c) - 1

\* draft.replace(/[^0-9.-]/g, ''): a draft is a sequence of characters
Strip(draft) == SelectSeq(draft, LAMBDA c : IsDigit(c) \/ c = "." \/ c = "-")

NaN == [nan |-> TRUE, value |-> 0]

\* the value of a sequence of digits
DigitsValue(str) ==
  LET F[i \in 0..Len(str)] == IF i = 0 THEN 0 ELSE 10 * F[i - 1] + DigitValue(str[i])
  IN F[Len(str)]

\* Number(str) for a string of digits, '.' and '-': 0 for the empty string, the
\* integer for digits behind an optional '-', NaN for a string without digits
\* or with a '-' elsewhere (a string with digits and a '.' is no draft of this
\* model)
Number(str) ==
  LET body == IF str # <<>> /\ Head(str) = "-" THEN Tail(str) ELSE str
  IN IF str = <<>> THEN [nan |-> FALSE, value |-> 0]
     ELSE IF body = <<>> \/ \E i \in 1..Len(body) : ~IsDigit(body[i]) THEN NaN
     ELSE [nan |-> FALSE,
           value |-> IF Head(str) = "-" THEN 0 - DigitsValue(body) ELSE DigitsValue(body)]

\* commit of an editable cell up to its onChange: the parsed draft
commit(draft) == Number(Strip(draft))

\* what a user types into the headcount cell
HeadcountDrafts == {<<"2">>, <<"-", "1">>, <<"$", "3">>, <<"a">>, <<"1", "-">>}

\* what a user types into a capacity cell
CapacityDrafts == {<<"$", "3">>, <<".">>}

\* the nodes of the tree the table shows
Rows(h, r) == {flattenTree(h, r)[i] : i \in 1..Len(flattenTree(h, r))}

AppInit ==
  /\ heap = orgHierarchy
  /\ root = 1
  /\ prev = [heap |-> heap, root |-> root]
  /\ call = NoCall
  /\ shown = <<>>
  /\ ncalls = 0
  /\ territoryData = initialTerritoryData
  /\ optimized = FALSE
  /\ showBanner = TRUE
  /\ currentPage = "capacity"
  /\ appTree = root
  /\ selectedIds = {"t1", "t2"}

\* variant: the table keeps its new tree to itself
handleDataChangeDropped(data) == appTree

\* App.handleDataChange, called by the table's setTreeData with its next
\* tree: the value of App's treeData afterwards
handleDataChange(data) == data

\* a committed draft that is no number changes nothing but the cell's draft
Rejected(op, nodeId) ==
  /\ call' = [NoCall EXCEPT !.op = op, !.nodeId = nodeId]
  /\ UNCHANGED <<heap, root, appTree>>

\* the headcount cell of a row: commit, onHeadcountUpdate, handleHeadcountUpdate
CommitHeadcount(node, draft) ==
  /\ ncalls < MaxCalls
  /\ LET parsed == commit(draft)
         r      == updateHeadcountAndRollUp(heap, root, heap[node].id, parsed.value)
     IN IF parsed.nan THEN Rejected("commitHeadcount", heap[node].id)
        ELSE /\ heap' = r.heap
             /\ root' = r.addr
             /\ appTree' = handleDataChange(r.addr)
             /\ call' = [op |-> "commitHeadcount", nodeId |-> heap[node].id,
                         updater |-> Updater("headcount", parsed.value), calls |-> r.calls]
  /\ prev' = Snapshot
  /\ shown' = <<>>
  /\ ncalls' = ncalls + 1
  /\ UNCHANGED <<territoryData, optimized, showBanner, currentPage, selectedIds>>

\* the target capacity cell of a row: commit, onNodeUpdate, handleNodeUpdate
CommitTargetCapacity(node, draft) ==
  /\ ncalls < MaxCalls
  /\ LET parsed  == commit(draft)
         updater == Updater("targetCapacity", parsed.value)
         r       == updateNodeInTree(heap, root, heap[node].id, updater)
     IN IF parsed.nan THEN Rejected("commitTargetCapacity", heap[node].id)
        ELSE /\ heap' = r.heap
             /\ root' = r.addr
             /\ appTree' = handleDataChange(r.addr)
             /\ call' = [op |-> "commitTargetCapacity", nodeId |-> heap[node].id,
                         updater |-> updater, calls |-> r.calls]
  /\ prev' = Snapshot
  /\ shown' = <<>>
  /\ ncalls' = ncalls + 1
  /\ UNCHANGED <<territoryData, optimized, showBanner, currentPage, selectedIds>>

\* variant: the validated capacity cell is an editor on every row
CommitValidatedCapacityAnyRow(node, draft) ==
  /\ ncalls < MaxCalls
  /\ LET parsed  == commit(draft)
         updater == Updater("validatedCapacity", Some(parsed.value))
         r       == updateNodeInTree(heap, root, heap[node].id, updater)
     IN IF parsed.nan THEN Rejected("commitValidatedCapacity", heap[node].id)
        ELSE /\ heap' = r.heap
             /\ root' = r.addr
             /\ appTree' = handleDataChange(r.addr)
             /\ call' = [op |-> "commitValidatedCapacity", nodeId |-> heap[node].id,
                         updater |-> updater, calls |-> r.calls]
  /\ prev' = Snapshot
  /\ shown' = <<>>
  /\ ncalls' = ncalls + 1
  /\ UNCHANGED <<territoryData, optimized, showBanner, currentPage, selectedIds>>

\* the validated capacity cell, which only the row of an AE has
CommitValidatedCapacity(node, draft) ==
  /\ ncalls < MaxCalls
  /\ heap[node].role = "AE"
  /\ LET parsed  == commit(draft)
         updater == Updater("validatedCapacity", Some(parsed.value))
         r       == updateNodeInTree(heap, root, heap[node].id, updater)
     IN IF parsed.nan THEN Rejected("commitValidatedCapacity", heap[node].id)
        ELSE /\ heap' = r.heap
             /\ root' = r.addr
             /\ appTree' = handleDataChange(r.addr)
             /\ call' = [op |-> "commitValidatedCapacity", nodeId |-> heap[node].id,
                         updater |-> updater, calls |-> r.calls]
  /\ prev' = Snapshot
  /\ shown' = <<>>
  /\ ncalls' = ncalls + 1
  /\ UNCHANGED <<territoryData, optimized, showBanner, currentPage, selectedIds>>

\* the cells TreeRow computes for every row, the two added columns included
Render ==
  /\ shown = <<>>
  /\ LET flat == flattenTree(heap, root)
     IN shown' = [i \in 1..Len(flat) |->
                   [node |-> flat[i],
                    headcount |-> heap[flat[i]].headcount,
                    lyHeadcount |-> getRolledUpHeadcount(heap, flat[i]),
                    lyAeCapacity |-> getRolledUpHeadcount(heap, flat[i]) * 800,
                    expectedCapacity |-> getExpectedCapacity(heap, flat[i]),
                    validatedCapacity |->
                      IF heap[flat[i]].role = "AE" THEN heap[flat[i]].validatedCapacity
                      ELSE getRolledUpValidatedCapacity(heap, flat[i])]]
  /\ UNCHANGED <<heap, root, prev, call, ncalls, territoryData, optimized, showBanner,
               currentPage, appTree, selectedIds>>

AppNext ==
  \/ \E node \in Rows(heap, root), draft \in HeadcountDrafts : CommitHeadcount(node, draft)
  \/ \E node \in Rows(heap, root), draft \in CapacityDrafts : CommitTargetCapacity(node, draft)
  \/ \E node \in Rows(heap, root), draft \in CapacityDrafts : CommitValidatedCapacity(node, draft)
  \/ Render

AppSpec == AppInit /\ [][AppNext]_vars

----------------------------------------------------------------------------
(* The application: App holds the current page and the tree; the capacity page
   mounts the tree table, the territory page mounts the territory table. While
   a page is not shown its component does not exist: the variables of the
   territory table then hold the values of a fresh mount, and root holds the
   last tree the tree table had, until the tree table is mounted again with
   the tree of App. *)

Pages == {"capacity", "territory"}

\* what a user types into the cells in the application
SiteHeadcountDrafts == {<<"2">>}

SiteTargetDrafts == {<<"$", "3">>}

SiteValidatedDrafts == {<<"1", "0", "0">>, <<"0">>}

SiteInit == AppInit

\* Header: onNavigate={setCurrentPage}. The page left is unmounted, the page
\* entered is mounted with the initial values of its useState calls
Navigate(page) ==
  /\ currentPage' = page
  /\ IF page = currentPage
     THEN UNCHANGED <<root, territoryData, selectedIds, optimized, showBanner, shown>>
     ELSE /\ root' = IF page = "capacity" THEN appTree ELSE root
          /\ territoryData' = initialTerritoryData
          /\ selectedIds' = {"t1", "t2"}
          /\ optimized' = FALSE
          /\ showBanner' = TRUE
          /\ shown' = <<>>
  /\ prev' = Snapshot
  /\ call' = [NoCall EXCEPT !.op = "navigate"]
  /\ UNCHANGED <<heap, appTree, ncalls>>

SiteCommitHeadcount(node, draft) ==
  currentPage = "capacity" /\ CommitHeadcount(node, draft)

SiteCommitTargetCapacity(node, draft) ==
  currentPage = "capacity" /\ CommitTargetCapacity(node, draft)

SiteCommitValidatedCapacity(node, draft) ==
  currentPage = "capacity" /\ CommitValidatedCapacity(node, draft)

SiteOptimize == currentPage = "territory" /\ Optimize

SiteCloseBanner == currentPage = "territory" /\ CloseBanner

\* the checkbox of a territory row
ToggleSelection(id) ==
  /\ currentPage = "territory"
  /\ ncalls < MaxCalls
  /\ selectedIds' = IF id \in selectedIds THEN selectedIds \ {id} ELSE selectedIds \cup {id}
  /\ ncalls' = ncalls + 1
  /\ UNCHANGED <<heap, root, prev, call, shown, territoryData, optimized, showBanner,
                 currentPage, appTree>>

\* the checkbox of the table header
ToggleAll ==
  /\ currentPage = "territory"
  /\ ncalls < MaxCalls
  /\ selectedIds' = IF Cardinality(selectedIds) = Len(territoryData) THEN {}
                    ELSE {territoryData[r].id : r \in 1..Len(territoryData)}
  /\ ncalls' = ncalls + 1
  /\ UNCHANGED <<heap, root, prev, call, shown, territoryData, optimized, showBanner,
                 currentPage, appTree>>

SiteNext ==
  \/ \E page \in Pages : Navigate(page)
  \/ \E node \in Rows(heap, root), draft \in SiteHeadcountDrafts :
        SiteCommitHeadcount(node, draft)
  \/ \E node \in Rows(heap, root), draft \in SiteTargetDrafts :
        SiteCommitTargetCapacity(node, draft)
  \/ \E node \in Rows(heap, root), draft \in SiteValidatedDrafts :
        SiteCommitValidatedCapacity(node, draft)
  \/ SiteOptimize
  \/ SiteCloseBanner
  \/ \E r \in 1..Len(territoryData) : ToggleSelection(territoryData[r].id)
  \/ ToggleAll

SiteSpec == SiteInit /\ [][SiteNext]_vars

----------------------------------------------------------------------------
(* The inline editors opened and committed with the draft they start with *)

RECURSIVE String(_)

\* String(n) for an integer n: its decimal digits, behind a '-' when negative
String(n) ==
  IF n < 0 THEN <<"-">> \o String(0 - n)
  ELSE IF n < 10 THEN <<Digits[n + 1]>>
  ELSE String(n \div 10) \o <<Digits[(n % 10) + 1]>>

\* EditableNumberCell, onClick: setDraft(String(value))
NumberCellDraft(value) == String(value)

\* EditableValidatedCell, onClick: setDraft(value !== null ? String(value) : '0')
ValidatedCellDraft(value) == IF value # Null THEN String(value[1]) ELSE <<"0">>

\* the built-in hierarchy, and the built-in hierarchy in which the validated
\* capacity of AE1 is unset and that of AE2 is 0
EditorInit ==
  /\ heap \in {orgHierarchy, HierarchyWith(<<Null, Some(0), Some(1200), Some(1150)>>)}
  /\ root = 1
  /\ prev = [heap |-> heap, root |-> root, territoryData |-> initialTerritoryData,
             optimized |-> FALSE, showBanner |-> TRUE, currentPage |-> "capacity",
             appTree |-> 1, selectedIds |-> {"t1", "t2"}]
  /\ call = NoCall
  /\ shown = <<>>
  /\ ncalls = 0
  /\ territoryData = initialTerritoryData
  /\ optimized = FALSE
  /\ showBanner = TRUE
  /\ currentPage = "capacity"
  /\ appTree = root
  /\ selectedIds = {"t1", "t2"}

\* a click on the headcount cell of a row, then Enter or blur
ReopenHeadcount(node) == CommitHeadcount(node, NumberCellDraft(heap[node].headcount))

\* a click on the target capacity cell of a row, then Enter or blur
ReopenTargetCapacity(node) ==
  CommitTargetCapacity(node, NumberCellDraft(heap[node].targetCapacity))

\* a click on the validated capacity cell of the row of an AE, then Enter or blur
ReopenValidatedCapacity(node) ==
  CommitValidatedCapacity(node, ValidatedCellDraft(heap[node].validatedCapacity))

EditorNext ==
  \/ \E node \in Rows(heap, root) : ReopenHeadcount(node)
  \/ \E node \in Rows(heap, root) : ReopenTargetCapacity(node)
  \/ \E node \in Rows(heap, root) : ReopenValidatedCapacity(node)
  \/ \E node \in Rows(heap, root), draft \in HeadcountDrafts : CommitHeadcount(node, draft)
  \/ \E node \in Rows(heap, root), draft \in SiteTargetDrafts :
        CommitTargetCapacity(node, draft)
  \/ \E node \in Rows(heap, root), draft \in SiteValidatedDrafts :
        CommitValidatedCapacity(node, draft)

EditorSpec == EditorInit /\ [][EditorNext]_vars

----------------------------------------------------------------------------
(* Vocabulary of the properties: positions in a tree, values of trees *)

UHR == "updateHeadcountAndRollUp"

UNIT == "updateNodeInTree"

RECURSIVE Paths(_, _)

\* the positions of the nodes of the tree at a: sequences of child indexes
Paths(h, a) ==
  {<<>>} \cup
  UNION {{<<i>> \o p : p \in Paths(h, Kids(h[a])[i])} : i \in 1..Len(Kids(h[a]))}

RECURSIVE NodeAt(_, _, _)

\* the object at position p of the tree at a
NodeAt(h, a, p) ==
  IF p = <<>> THEN a ELSE NodeAt(h, Kids(h[a])[Head(p)], Tail(p))

IsPrefix(q, p) == Len(q) <= Len(p) /\ SubSeq(p, 1, Len(q)) = q

IsProperPrefix(q, p) == Len(q) < Len(p) /\ SubSeq(p, 1, Len(q)) = q

HasChild(n) == Len(Kids(n)) >= 1

\* sum of f over 1..n
RECURSIVE SumTo(_, _)
SumTo(f, n) == IF n = 0 THEN 0 ELSE f[n] + SumTo(f, n - 1)

\* sum of the stored headcount of the direct children of a
ChildrenHeadcount(h, a) ==
  LET kids == Kids(h[a])
  IN SumTo([i \in 1..Len(kids) |-> h[kids[i]].headcount], Len(kids))

\* invariant 2 of the data model at node a
RollupAt(h, a) == HasChild(h[a]) => h[a].headcount = ChildrenHeadcount(h, a)

RollupHolds(h, r) == \A p \in Paths(h, r) : RollupAt(h, NodeAt(h, r, p))

UniqueIdsIn(h, r) ==
  \A p, q \in Paths(h, r) : h[NodeAt(h, r, p)].id = h[NodeAt(h, r, q)].id => p = q

\* the fields of an object other than its children
OwnFields(n) ==
  [id |-> n.id, name |-> n.name, role |-> n.role, targetCapacity |-> n.targetCapacity,
   headcount |-> n.headcount, expectedCapacity |-> n.expectedCapacity,
   validatedCapacity |-> n.validatedCapacity, difference |-> n.difference,
   depth |-> n.depth]

RECURSIVE TreeValue(_, _)

\* the tree at a as a value: every node's fields and its children in order
TreeValue(h, a) ==
  [node |-> OwnFields(h[a]),
   hasChildrenField |-> h[a].children # Undefined,
   children |-> [i \in 1..Len(Kids(h[a])) |-> TreeValue(h, Kids(h[a])[i])]]

\* the leaves (nodes with no child) of the tree at a, as positions
LeafPaths(h, a) == {p \in Paths(h, a) : ~HasChild(h[NodeAt(h, a, p)])}

RECURSIVE SumOverSet(_, _, _, _)
\* sum over the positions in S of field(h[node])
SumOverSet(h, a, S, field) ==
  IF S = {} THEN 0
  ELSE LET p == CHOOSE x \in S : TRUE
       IN (IF field = "headcount" THEN h[NodeAt(h, a, p)].headcount
           ELSE h[NodeAt(h, a, p)].validatedCapacity[1])
          + SumOverSet(h, a, S \ {p}, field)

----------------------------------------------------------------------------
(* C1 *)

\* C1: after updateHeadcountAndRollUp returns, every node of the returned tree
\* that has at least one child has headcount equal to the sum of its direct
\* children's headcount, whatever the input tree, the target id and the value.
C1_RollupAfterUpdate ==
  call.op = UHR => RollupHolds(heap, root)

\* an input that violated the rollup, edited at a node with children
C1_Witness ==
  /\ call.op = UHR
  /\ ~RollupHolds(prev.heap, prev.root)
  /\ \E p \in Paths(prev.heap, prev.root) :
        /\ prev.heap[NodeAt(prev.heap, prev.root, p)].id = call.nodeId
        /\ HasChild(prev.heap[NodeAt(prev.heap, prev.root, p)])
  /\ RollupHolds(heap, root)

----------------------------------------------------------------------------
(* C2 *)

\* C2: for any tree, getRolledUpHeadcount of a node is the sum of the headcount
\* of the leaves below it; this holds on the input trees and on the tree
\* returned by every call in any sequence of calls.
C2_RollupIsLeafSum ==
  \A i \in 1..Len(shown) :
     shown[i].headcount =
       SumOverSet(heap, shown[i].node, LeafPaths(heap, shown[i].node), "headcount")

\* the rollup of a tree returned by the second of two calls, the last an
\* updateHeadcountAndRollUp that changed the total
C2_Witness ==
  /\ ncalls >= 2
  /\ call.op = UHR
  /\ shown # <<>>
  /\ shown[1].node = root
  /\ HasChild(heap[root])
  /\ shown[1].headcount # getRolledUpHeadcount(prev.heap, prev.root)

----------------------------------------------------------------------------
(* The last call, seen from the input tree (prev) and the returned tree *)

OldNode(p) == prev.heap[NodeAt(prev.heap, prev.root, p)]

NewNode(p) == heap[NodeAt(heap, root, p)]

OldPaths == Paths(prev.heap, prev.root)

\* the positions of the nodes of the input tree that carry the id of the call
Carriers == {p \in OldPaths : OldNode(p).id = call.nodeId}

\* the carriers the search reaches: no node above them carries the id
Targets == {x \in Carriers : \A q \in Carriers : ~IsProperPrefix(q, x)}

\* the positions that are neither x nor above x
OffPath(x) == {p \in OldPaths : ~IsPrefix(p, x)}

----------------------------------------------------------------------------
(* C3 *)

----------------------------------------------------------------------------
(* C4 *)

----------------------------------------------------------------------------
(* C5 *)

\* the headcount at position x of the tree the call would return for value w
HeadcountFor(w, x) ==
  LET r == updateHeadcountAndRollUp(prev.heap, prev.root, call.nodeId, w)
  IN r.heap[NodeAt(r.heap, r.addr, x)].headcount

----------------------------------------------------------------------------
(* C6 *)

\* the leaves below a whose validatedCapacity is set
SetLeafPaths(h, a) ==
  {p \in LeafPaths(h, a) : h[NodeAt(h, a, p)].validatedCapacity # Null}

\* C6: getRolledUpValidatedCapacity(node) is null if and only if every leaf
\* below node has validatedCapacity unset, and otherwise the sum of the
\* validatedCapacity of the leaves that are set; one set leaf of value 0 rolls
\* up to 0, not to null.
C6_ValidatedRollup ==
  \A i \in 1..Len(shown) :
     LET S == SetLeafPaths(heap, shown[i].node)
     IN shown[i].validatedCapacity =
          IF S = {} THEN Null
          ELSE Some(SumOverSet(heap, shown[i].node, S, "validatedCapacity"))

\* a node with children whose only set leaf has value 0 rolls up to 0
C6_Witness ==
  \E i \in 1..Len(shown) :
     /\ HasChild(heap[shown[i].node])
     /\ Cardinality(LeafPaths(heap, shown[i].node)) >= 2
     /\ \E p \in LeafPaths(heap, shown[i].node) :
           /\ SetLeafPaths(heap, shown[i].node) = {p}
           /\ heap[NodeAt(heap, shown[i].node, p)].validatedCapacity = Some(0)
     /\ shown[i].validatedCapacity = Some(0)

----------------------------------------------------------------------------
(* C7 *)

\* C7: updateNodeInTree with an id that no node carries returns a tree equal
\* in value to its input and never invokes the updater.
C7_AbsentIdNoOp ==
  (call.op = UNIT /\ Carriers = {}) =>
    /\ TreeValue(heap, root) = TreeValue(prev.heap, prev.root)
    /\ call.calls = 0

\* the call returned for an absent id on a tree two levels deep: a new root
\* object of equal value
C7_Witness ==
  /\ call.op = UNIT
  /\ Carriers = {}
  /\ \E p \in OldPaths : Len(p) = 2
  /\ root # prev.root
  /\ TreeValue(heap, root) = TreeValue(prev.heap, prev.root)

----------------------------------------------------------------------------
(* C8 *)

----------------------------------------------------------------------------
(* C9 *)

\* C9: for a tree with unique ids, updateNodeInTree applies the updater to the
\* node that carries the id and to no other: the tree keeps its positions,
\* every other node keeps all its own fields, the target is the input node with
\* the updater's field set, and its children are the input's children.
C9_OnlyTargetUpdated ==
  (call.op = UNIT /\ UniqueIdsIn(prev.heap, prev.root)) =>
    /\ Paths(heap, root) = OldPaths
    /\ call.calls = Cardinality(Carriers)
    /\ \A p \in OldPaths :
          IF p \in Carriers
          THEN NewNode(p) = [OldNode(p) EXCEPT ![call.updater.field] = call.updater.value]
          ELSE OwnFields(NewNode(p)) = OwnFields(OldNode(p))

\* a node with children and with siblings was the target and its field changed
C9_Witness ==
  /\ call.op = UNIT
  /\ UniqueIdsIn(prev.heap, prev.root)
  /\ \E x \in Carriers :
        /\ Len(x) = 1
        /\ HasChild(OldNode(x))
        /\ NewNode(x) # OldNode(x)
        /\ NewNode(x).children = OldNode(x).children
        /\ \E p \in OffPath(x) : HasChild(OldNode(p))
  /\ call.calls = 1

----------------------------------------------------------------------------
(* C10 *)

\* C10: updateNodeInTree and updateHeadcountAndRollUp never modify the tree
\* they are given: every object that existed before the call has the same
\* field values and children after it.
C10_InputUntouched ==
  call.op # "none" =>
    /\ Len(heap) >= Len(prev.heap)
    /\ \A a \in 1..Len(prev.heap) : heap[a] = prev.heap[a]

\* a call returned a tree of another value, and the old root still reads as
\* it did
C10_Witness ==
  /\ call.op \in {UNIT, UHR}
  /\ root # prev.root
  /\ TreeValue(heap, root) # TreeValue(prev.heap, prev.root)
  /\ TreeValue(heap, prev.root) = TreeValue(prev.heap, prev.root)

----------------------------------------------------------------------------
(* C11 *)

OldAddr(p) == NodeAt(prev.heap, prev.root, p)

NewAddr(p) == NodeAt(heap, root, p)

\* the positions on the path from the root to a node the updater was applied to
OnTargetPath(p) == \E x \in Targets : IsPrefix(p, x)

BelowTarget(p) == \E x \in Targets : IsProperPrefix(x, p)

\* C11 as stated: only the nodes on the path from the root to the mutated node
\* are new objects; every node off that path is the identical object in the old
\* and the new tree.
C11_OnlyPathRebuilt ==
  (call.op = UNIT /\ Targets # {}) =>
    \A p \in OldPaths : (NewAddr(p) # OldAddr(p)) <=> OnTargetPath(p)

\* C11 amended: the returned tree shares with the input tree the subtree below
\* the mutated node and every other node that has no children array; the nodes
\* on the path from the root to the mutated node are new objects, and so is
\* every node off that path that has a children array and does not lie below
\* the mutated node.
C11_SharedSubtrees ==
  call.op = UNIT =>
    \A p \in OldPaths :
       IF BelowTarget(p) THEN NewAddr(p) = OldAddr(p)
       ELSE IF p \in Targets THEN NewAddr(p) > Len(prev.heap)
       ELSE IF OldNode(p).children = Undefined THEN NewAddr(p) = OldAddr(p)
       ELSE NewAddr(p) > Len(prev.heap)

\* a leaf two levels down was mutated: a node with children off its path is a
\* new object and the leaf below that node is shared
C11_Witness ==
  /\ call.op = UNIT
  /\ \E x \in Targets :
        /\ Len(x) = 2
        /\ NewAddr(x) # OldAddr(x)
        /\ \E p \in OffPath(x) :
              /\ HasChild(OldNode(p))
              /\ NewAddr(p) # OldAddr(p)
              /\ NewAddr(p \o <<1>>) = OldAddr(p \o <<1>>)

----------------------------------------------------------------------------
(* Vocabulary of the territory properties *)

HO == "handleOptimize"

\* the rows of the territory table other than the unassigned row, in order
AssignedRows(data) == {r \in 1..Len(data) : data[r].id # "unassigned"}

\* the weight of row r before the call: the validated capacity of the AE of
\* the hierarchy named as its owner, 0 when unset or when there is no such AE
Weight(r) ==
  LET flat   == flattenTree(prev.heap, prev.root)
      owners == {i \in 1..Len(flat) :
                   /\ prev.heap[flat[i]].role = "AE"
                   /\ prev.heap[flat[i]].name = prev.territoryData[r].owner}
  IN IF owners = {} THEN 0
     ELSE LET n == prev.heap[flat[CHOOSE i \in owners : \A j \in owners : j <= i]]
          IN IF n.validatedCapacity = Null THEN 0 ELSE n.validatedCapacity[1]

RECURSIVE TotalOf(_, _)

\* the sum of f over the set S
TotalOf(f, S) ==
  IF S = {} THEN 0
  ELSE LET x == CHOOSE y \in S : TRUE
       IN f[x] + TotalOf(f, S \ {x})

TotalWeight ==
  TotalOf([r \in AssignedRows(prev.territoryData) |-> Weight(r)],
          AssignedRows(prev.territoryData))

\* the last step was a call of handleOptimize with a total weight other than 0
Allocated == call.op = HO /\ TotalWeight # 0

Units(r) == territoryData[r].units[1]

Tam(r) == territoryData[r].tam[1]

\* C12: whenever handleOptimize performs an allocation, the units of the rows
\* other than the unassigned row sum to exactly TOTAL_UNITS and their tam values
\* sum to exactly TOTAL_TAM
C12_PoolsExact ==
  Allocated =>
    /\ TotalOf([r \in AssignedRows(territoryData) |-> Units(r)],
               AssignedRows(territoryData)) = TOTAL_UNITS
    /\ TotalOf([r \in AssignedRows(territoryData) |-> Tam(r)],
               AssignedRows(territoryData)) = TOTAL_TAM

\* an allocation over four positive weights whose shares are not whole numbers
C12_Witness ==
  /\ Allocated
  /\ \A r \in AssignedRows(territoryData) :
        /\ Weight(r) > 0
        /\ (Weight(r) * TOTAL_UNITS) % TotalWeight # 0
        /\ (Weight(r) * TOTAL_TAM) % TotalWeight # 0

\* C13: in every allocation each row's units differ from TOTAL_UNITS * w / total
\* by less than 1 and each row's tam differs from TOTAL_TAM * w / total by less
\* than 1 (both sides multiplied by the total weight)
C13_WithinOne ==
  Allocated =>
    \A r \in AssignedRows(territoryData) :
       LET du == Units(r) * TotalWeight - Weight(r) * TOTAL_UNITS
           dt == Tam(r) * TotalWeight - Weight(r) * TOTAL_TAM
       IN /\ -TotalWeight < du /\ du < TotalWeight
          /\ -TotalWeight < dt /\ dt < TotalWeight

\* an allocation in which two rows were rounded up and one was rounded down,
\* in units and in tam
C13_Witness ==
  /\ Allocated
  /\ \E a, b, c \in AssignedRows(territoryData) :
        /\ a # b
        /\ Units(a) * TotalWeight > Weight(a) * TOTAL_UNITS
        /\ Units(b) * TotalWeight > Weight(b) * TOTAL_UNITS
        /\ Units(c) * TotalWeight < Weight(c) * TOTAL_UNITS
  /\ \E a, b, c \in AssignedRows(territoryData) :
        /\ a # b
        /\ Tam(a) * TotalWeight > Weight(a) * TOTAL_TAM
        /\ Tam(b) * TotalWeight > Weight(b) * TOTAL_TAM
        /\ Tam(c) * TotalWeight < Weight(c) * TOTAL_TAM

\* floor of the exact share of row r in a pool
ShareFloor(r, pool) == (Weight(r) * pool) \div TotalWeight

\* the exact fractional remainder of row r in a pool, times the total weight
Remainder(r, pool) == (Weight(r) * pool) % TotalWeight

Leftover(pool) ==
  pool - TotalOf([r \in AssignedRows(prev.territoryData) |-> ShareFloor(r, pool)],
                 AssignedRows(prev.territoryData))

\* the rows that come before row r by larger remainder, then by input order
Ahead(r, pool) ==
  {q \in AssignedRows(prev.territoryData) :
     \/ Remainder(q, pool) > Remainder(r, pool)
     \/ Remainder(q, pool) = Remainder(r, pool) /\ q < r}

\* what the largest-remainder rule gives row r from a pool
LargestRemainder(r, pool) ==
  ShareFloor(r, pool) + (IF Cardinality(Ahead(r, pool)) < Leftover(pool) THEN 1 ELSE 0)

\* C14: handleOptimize follows the largest-remainder rule for both pools
\* independently: each row gets the floor of its share, and the leftover rows
\* with the largest fractional remainder, the earlier row first among rows with
\* equal remainder, get one more
C14_LargestRemainderRule ==
  Allocated =>
    \A r \in AssignedRows(territoryData) :
       /\ Units(r) = LargestRemainder(r, TOTAL_UNITS)
       /\ Tam(r) = LargestRemainder(r, TOTAL_TAM)

\* the unassigned row of the territory table
Unassigned(data) == data[CHOOSE r \in 1..Len(data) : data[r].id = "unassigned"]

\* C15: when the total weight of the rows other than the unassigned row is 0,
\* handleOptimize performs no allocation: territoryData is unchanged (no row's
\* units or tam is set to 0, the unassigned row keeps its pool) and the
\* optimized flag is not set to true
C15_NoAllocationOnZeroTotal ==
  (call.op = HO /\ TotalWeight = 0) =>
    /\ territoryData = prev.territoryData
    /\ \A r \in AssignedRows(territoryData) :
          territoryData[r].units = Null /\ territoryData[r].tam = Null
    /\ Unassigned(territoryData).units = Some(1000)
    /\ Unassigned(territoryData).tam = Some(12000)
    /\ ~optimized

\* Optimize was clicked, the banner closed, with one owner's capacity unset and
\* the others' 0
C15_Witness ==
  /\ call.op = HO
  /\ TotalWeight = 0
  /\ \E a \in 1..Len(heap) : heap[a].name = "AE1" /\ heap[a].validatedCapacity = Null
  /\ \E a \in 1..Len(heap) : heap[a].name = "AE2" /\ heap[a].validatedCapacity = Some(0)
  /\ ~prev.showBanner
  /\ ~showBanner

\* C16: the unassigned row is excluded from weighting. After every allocation
\* its units and tam are both 0; the other rows share the whole of each pool,
\* each within 1 of its share of the weights of those rows alone; and an
\* allocation made while the unassigned row holds 0 equals the one made while
\* it held the pools
C16_UnassignedExcluded ==
  Allocated =>
    /\ Unassigned(territoryData).units = Some(0)
    /\ Unassigned(territoryData).tam = Some(0)
    /\ C12_PoolsExact
    /\ C13_WithinOne
    /\ prev.optimized => territoryData = prev.territoryData

\* a second allocation, made while the unassigned row held 0 and 0
C16_Witness ==
  /\ Allocated
  /\ prev.optimized
  /\ Unassigned(prev.territoryData).units = Some(0)
  /\ Unassigned(territoryData).units = Some(0)
  /\ \E r \in AssignedRows(territoryData) : Units(r) > 0

----------------------------------------------------------------------------
(* Properties of the capacity page *)

TreeNodes == {NodeAt(heap, root, p) : p \in Paths(heap, root)}

\* C17: in every state reached from the built-in hierarchy by edits of target
\* capacity, validated capacity and headcount, every node's stored headcount
\* equals its rolled-up headcount (the sum of the headcounts of the leaves below
\* it), so the Expected Capacity cell is 1000 times and the LY AE Capacity cell
\* 800 times the same headcount
C17_StoredEqualsRolledUp ==
  /\ \A p \in Paths(heap, root) :
        heap[NodeAt(heap, root, p)].headcount
          = TotalOf([x \in LeafPaths(heap, root) |-> heap[NodeAt(heap, root, x)].headcount],
                    {x \in LeafPaths(heap, root) : IsPrefix(p, x)})
  /\ \A i \in 1..Len(shown) :
        /\ shown[i].headcount = shown[i].lyHeadcount
        /\ shown[i].expectedCapacity * 800 = shown[i].lyAeCapacity * CAPACITY_PER_HC

\* the table was rendered after a headcount edit of a leaf and an edit of the
\* same leaf's validated capacity; the root's cells show the new total
C17_Witness ==
  /\ shown # <<>>
  /\ ncalls = 2
  /\ call.op = "commitValidatedCapacity"
  /\ \E a \in TreeNodes : /\ heap[a].id = call.nodeId
                          /\ heap[a].headcount = 2
                          /\ heap[a].validatedCapacity = Some(3)
  /\ heap[root].headcount = 9
  /\ shown[1].expectedCapacity = 9000
  /\ shown[1].lyAeCapacity = 7200

\* C18: after any sequence of edits committed through the headcount cell, no
\* node of the tree has a negative headcount
C18_NoNegativeHeadcount ==
  \A a \in TreeNodes : heap[a].headcount >= 0

----------------------------------------------------------------------------
(* Structure and the other fields under the two update operations *)

\* child.depth == parent.depth + 1 at every node of the tree at a
DepthConsistent(h, a) ==
  \A p \in Paths(h, a) :
     \A i \in 1..Len(Kids(h[NodeAt(h, a, p)])) :
        h[NodeAt(h, a, p \o <<i>>)].depth = h[NodeAt(h, a, p)].depth + 1

\* C19: both update operations preserve the structure of the tree: the returned
\* tree has the same positions as the input (so every node has the same parent
\* and the children keep their order), the same id and the same depth at every
\* position, and child.depth = parent.depth + 1 stays true if it was true
C19_StructurePreserved ==
  call.op \in {UNIT, UHR} =>
    /\ Paths(heap, root) = OldPaths
    /\ \A p \in OldPaths :
          /\ NewNode(p).id = OldNode(p).id
          /\ NewNode(p).depth = OldNode(p).depth
          /\ Len(Kids(NewNode(p))) = Len(Kids(OldNode(p)))
    /\ DepthConsistent(prev.heap, prev.root) => DepthConsistent(heap, root)

\* a headcount update of a node two levels down, in a tree whose root has two
\* children with different ids and whose depths are consistent
C19_Witness ==
  /\ call.op = UHR
  /\ call.calls = 1
  /\ \E x \in Targets : Len(x) = 2 /\ NewNode(x).headcount # OldNode(x).headcount
  /\ Len(Kids(OldNode(<<>>))) = 2
  /\ OldNode(<<1>>).id # OldNode(<<2>>).id
  /\ DepthConsistent(prev.heap, prev.root)

\* the fields of a node that a headcount update must leave alone
OtherFields(n) ==
  [targetCapacity |-> n.targetCapacity, validatedCapacity |-> n.validatedCapacity,
   expectedCapacity |-> n.expectedCapacity, difference |-> n.difference]

\* C20: updateHeadcountAndRollUp changes no field other than headcount: at every
\* position the returned tree has the targetCapacity, validatedCapacity, stored
\* expectedCapacity and difference of the input tree
C20_OnlyHeadcountChanges ==
  call.op = UHR =>
    /\ Paths(heap, root) = OldPaths
    /\ \A p \in OldPaths :
          /\ OtherFields(NewNode(p)) = OtherFields(OldNode(p))
          /\ [OwnFields(NewNode(p)) EXCEPT !.headcount = 0]
               = [OwnFields(OldNode(p)) EXCEPT !.headcount = 0]

\* a headcount update that changed the headcount of a leaf and of the root, in
\* a tree one of whose nodes had its target capacity set before
C20_Witness ==
  /\ call.op = UHR
  /\ \E x \in Targets : Len(x) >= 1 /\ NewNode(x).headcount # OldNode(x).headcount
  /\ NewNode(<<>>).headcount # OldNode(<<>>).headcount
  /\ \E p \in OldPaths : OldNode(p).targetCapacity = 1 /\ HasChild(OldNode(p))
  /\ \E p \in OldPaths : OldNode(p).validatedCapacity # Null


----------------------------------------------------------------------------
(* The application as a whole *)

\* C21: when handleOptimize runs, the tree it reads is the last tree of the
\* tree table, edits included: App's tree is that tree, and in an allocation
\* every row's units and tam are within 1 of the share that the validated
\* capacity stored for its owner in that tree gives it
C21_WeightsFromLatestTree ==
  call.op = HO =>
    /\ prev.appTree = prev.root
    /\ TotalWeight = 0 => territoryData = prev.territoryData
    /\ TotalWeight # 0 =>
         \A r \in AssignedRows(territoryData) :
            LET du == Units(r) * TotalWeight - Weight(r) * TOTAL_UNITS
                dt == Tam(r) * TotalWeight - Weight(r) * TOTAL_TAM
            IN /\ -TotalWeight < du /\ du < TotalWeight
               /\ -TotalWeight < dt /\ dt < TotalWeight

\* Optimize after the validated capacity of AE5 was edited from 1050 to 100 on
\* the capacity page: its row gets 28 of the 1000 units
C21_Witness ==
  /\ call.op = HO
  /\ currentPage = "territory"
  /\ optimized
  /\ \E r \in AssignedRows(territoryData) :
        /\ prev.territoryData[r].owner = "AE5"
        /\ Weight(r) = 100
        /\ Units(r) = 28

\* the commits of the cells of the tree table
TreeEdits == {"commitHeadcount", "commitTargetCapacity", "commitValidatedCapacity"}

\* C22: handleOptimize changes neither the tree of App nor any object of it,
\* and no commit of a cell of the tree table changes territoryData, the
\* optimized flag or the selection
C22_NoSharedState ==
  /\ call.op = HO =>
       /\ appTree = prev.appTree
       /\ root = prev.root
       /\ heap = prev.heap
  /\ call.op \in TreeEdits =>
       /\ territoryData = prev.territoryData
       /\ optimized = prev.optimized
       /\ selectedIds = prev.selectedIds

\* Optimize allocated the pools from a tree that an edit of the capacity page
\* had changed before
C22_Witness ==
  /\ call.op = HO
  /\ optimized
  /\ territoryData # prev.territoryData
  /\ appTree # 1
  /\ TreeValue(heap, appTree) # TreeValue(orgHierarchy, 1)

----------------------------------------------------------------------------
(* The capacity page: validated capacity *)

\* the node of the built-in hierarchy with the id of node a
Original(a) ==
  orgHierarchy[CHOOSE o \in 1..Len(orgHierarchy) : orgHierarchy[o].id = heap[a].id]

\* C23: in every state of the capacity page the stored validatedCapacity of
\* every node that is not an AE is the one of the built-in hierarchy, and the
\* validated capacity cell of every such row shows
\* getRolledUpValidatedCapacity of the node in the current tree
C23_DerivedOnInternalNodes ==
  /\ \A a \in Rows(heap, root) :
        heap[a].role # "AE" => heap[a].validatedCapacity = Original(a).validatedCapacity
  /\ \A i \in 1..Len(shown) :
        heap[shown[i].node].role # "AE" =>
          shown[i].validatedCapacity = getRolledUpValidatedCapacity(heap, shown[i].node)

\* the table rendered after the validated capacity of an AE was edited: the
\* rows of its ancestors show a sum that differs from the one of the built-in
\* hierarchy, and what they store is still unset
C23_Witness ==
  /\ call.op = "commitValidatedCapacity"
  /\ heap # prev.heap
  /\ \E i \in 1..Len(shown) :
        /\ heap[shown[i].node].role # "AE"
        /\ shown[i].validatedCapacity # Null
        /\ heap[shown[i].node].validatedCapacity = Null
        /\ shown[i].validatedCapacity #
             getRolledUpValidatedCapacity(orgHierarchy,
               CHOOSE o \in 1..Len(orgHierarchy) : orgHierarchy[o].id = heap[shown[i].node].id)

----------------------------------------------------------------------------
(* The territory page: totals *)

\* totalUnits and totalTam of the page: the sums over all rows, unset as 0
totalUnits ==
  TotalOf([r \in 1..Len(territoryData) |->
             IF territoryData[r].units = Null THEN 0 ELSE territoryData[r].units[1]],
          1..Len(territoryData))

totalTam ==
  TotalOf([r \in 1..Len(territoryData) |->
             IF territoryData[r].tam = Null THEN 0 ELSE territoryData[r].tam[1]],
          1..Len(territoryData))

\* C24: in every state of the territory page the units of all rows, the
\* unassigned row included and unset counted as 0, sum to 1000 and the tam of
\* all rows sums to 12000
C24_TotalsConserved ==
  /\ totalUnits = 1000
  /\ totalTam = 12000

\* after an allocation: the pools have left the unassigned row and are on the
\* rows of the AEs
C24_Witness ==
  /\ call.op = HO
  /\ optimized
  /\ Unassigned(prev.territoryData).units = Some(1000)
  /\ Unassigned(prev.territoryData).tam = Some(12000)
  /\ Unassigned(territoryData).units # Some(1000)
  /\ Unassigned(territoryData).tam # Some(12000)
  /\ \E r \in AssignedRows(territoryData) :
        prev.territoryData[r].units = Null /\ Units(r) > 0 /\ Tam(r) > 0

----------------------------------------------------------------------------
(* The allocation as a function of the weights *)

\* C25 as stated: a row whose weight is not smaller than that of another row
\* gets at least as many units and at least as much tam, and rows of equal
\* weight get values that differ by at most 1
C25_MonotoneWeak ==
  Allocated =>
    \A i, j \in AssignedRows(territoryData) :
       /\ Weight(i) >= Weight(j) => Units(i) >= Units(j) /\ Tam(i) >= Tam(j)
       /\ Weight(i) = Weight(j) =>
            /\ Units(i) - Units(j) \in {-1, 0, 1}
            /\ Tam(i) - Tam(j) \in {-1, 0, 1}

\* C25: in every allocation over non-negative weights a row whose weight is
\* larger than that of another row gets at least as many units and at least as
\* much tam, and rows of equal weight get values that differ by at most 1
C25_Monotone ==
  Allocated =>
    \A i, j \in AssignedRows(territoryData) :
       /\ Weight(i) > Weight(j) => Units(i) >= Units(j) /\ Tam(i) >= Tam(j)
       /\ Weight(i) = Weight(j) =>
            /\ Units(i) - Units(j) \in {-1, 0, 1}
            /\ Tam(i) - Tam(j) \in {-1, 0, 1}

\* an allocation in which two rows of different weight have the same floor and
\* only the heavier one gets one more, and two rows of equal weight get
\* different units
C25_Witness ==
  /\ Allocated
  /\ \E i, j \in AssignedRows(territoryData) :
        /\ Weight(i) > Weight(j)
        /\ ShareFloor(i, TOTAL_UNITS) = ShareFloor(j, TOTAL_UNITS)
        /\ Units(i) = Units(j) + 1
  /\ \E i, j \in AssignedRows(territoryData) :
        /\ Weight(i) = Weight(j)
        /\ Units(i) = Units(j) + 1

\* the rows whose owner is not an AE of the hierarchy
Ownerless ==
  {r \in AssignedRows(prev.territoryData) :
     \A a \in Rows(prev.heap, prev.root) :
        prev.heap[a].role = "AE" => prev.heap[a].name # prev.territoryData[r].owner}

\* C26: in every allocation over non-negative weights a row of weight 0 gets 0
\* units and 0 tam, and the leftover of either pool is at most the number of
\* rows whose share of it is not a whole number
C26_NothingForZeroWeight ==
  (Allocated /\ \A r \in AssignedRows(territoryData) : Weight(r) >= 0) =>
    /\ \A r \in AssignedRows(territoryData) :
          Weight(r) = 0 => Units(r) = 0 /\ Tam(r) = 0
    /\ \A pool \in {TOTAL_UNITS, TOTAL_TAM} :
          Leftover(pool) <=
            Cardinality({r \in AssignedRows(territoryData) : Remainder(r, pool) # 0})

\* an allocation with a leftover in both pools, a row without owner in the
\* hierarchy and a row whose owner's validated capacity is unset or 0
C26_Witness ==
  /\ Allocated
  /\ Leftover(TOTAL_UNITS) > 0
  /\ Leftover(TOTAL_TAM) > 0
  /\ \E r \in Ownerless : Units(r) = 0
  /\ \E r \in AssignedRows(territoryData) \ Ownerless : Weight(r) = 0 /\ Units(r) = 0

----------------------------------------------------------------------------
(* Headcount edits as operations on trees *)

\* the ids of the leaves of the tree at a
LeafIds(h, a) == {h[NodeAt(h, a, p)].id : p \in LeafPaths(h, a)}

\* the value of the tree after updateHeadcountAndRollUp for (x, a), then (y, b)
AfterBoth(h, r, x, a, y, b) ==
  LET first  == updateHeadcountAndRollUp(h, r, x, a)
      second == updateHeadcountAndRollUp(first.heap, first.addr, y, b)
  IN TreeValue(second.heap, second.addr)

\* C27: for the tree before a call of updateHeadcountAndRollUp on a leaf X with
\* headcount a, every other leaf Y and every headcount b: the edits (X, a) then
\* (Y, b) give the same tree as (Y, b) then (X, a), and (X, a) applied to the
\* tree after the call gives the tree after the call
C27_CommuteAndIdempotent ==
  (call.op = UHR /\ call.nodeId \in LeafIds(prev.heap, prev.root)) =>
    LET X == call.nodeId
        a == call.updater.value
    IN /\ \A Y \in LeafIds(prev.heap, prev.root) \ {X} : \A b \in NewHeadcounts :
             AfterBoth(prev.heap, prev.root, X, a, Y, b) =
               AfterBoth(prev.heap, prev.root, Y, b, X, a)
       /\ LET again == updateHeadcountAndRollUp(heap, root, X, a)
          IN TreeValue(again.heap, again.addr) = TreeValue(heap, root)

\* a call on a leaf of a tree with another leaf that changed the headcount of
\* the leaf and of the root
C27_Witness ==
  /\ call.op = UHR
  /\ call.nodeId \in LeafIds(prev.heap, prev.root)
  /\ LeafIds(prev.heap, prev.root) \ {call.nodeId} # {}
  /\ heap[root].headcount # prev.heap[prev.root].headcount
  /\ heap[root].headcount > 0
  /\ \E p \in LeafPaths(heap, root) :
        /\ heap[NodeAt(heap, root, p)].id = call.nodeId
        /\ heap[NodeAt(heap, root, p)].headcount = call.updater.value
        /\ prev.heap[NodeAt(prev.heap, prev.root, p)].headcount # call.updater.value

----------------------------------------------------------------------------
(* The allocation shown and the current tree *)

\* the validated capacity that the tree of App stores for the owner of row r,
\* 0 when unset or when there is no such AE
CurrentWeight(r) ==
  LET aes == {a \in Rows(heap, appTree) :
                heap[a].role = "AE" /\ heap[a].name = territoryData[r].owner}
  IN IF aes = {} THEN 0
     ELSE LET n == heap[CHOOSE a \in aes : TRUE]
          IN IF n.validatedCapacity = Null THEN 0 ELSE n.validatedCapacity[1]

CurrentTotal ==
  TotalOf([r \in AssignedRows(territoryData) |-> CurrentWeight(r)],
          AssignedRows(territoryData))

\* the rows that come before row r by larger exact remainder of their share of
\* the pool, then by input order
CurrentAhead(r, pool) ==
  {q \in AssignedRows(territoryData) :
     \/ (CurrentWeight(q) * pool) % CurrentTotal > (CurrentWeight(r) * pool) % CurrentTotal
     \/ /\ (CurrentWeight(q) * pool) % CurrentTotal = (CurrentWeight(r) * pool) % CurrentTotal
        /\ q < r}

\* the largest-remainder allocation of a pool over the current tree
CurrentLargestRemainder(r, pool) ==
  LET floors   == [q \in AssignedRows(territoryData) |->
                     (CurrentWeight(q) * pool) \div CurrentTotal]
      leftover == pool - TotalOf(floors, AssignedRows(territoryData))
  IN floors[r] + (IF Cardinality(CurrentAhead(r, pool)) < leftover THEN 1 ELSE 0)

\* C28: in every state of the application in which the territory page shows
\* an allocation (optimized is true), the units and tam of every AE row are
\* the largest-remainder allocation of the pools over the validated capacities
\* of the current tree
C28_ShownIsLargestRemainder ==
  (currentPage = "territory" /\ optimized) =>
    \A r \in AssignedRows(territoryData) :
       /\ Units(r) = CurrentLargestRemainder(r, TOTAL_UNITS)
       /\ Tam(r) = CurrentLargestRemainder(r, TOTAL_TAM)

\* in every state of the application in which the territory page shows an
\* allocation, it is the one handleOptimize computes from the current tree
C28_ShownIsCurrent ==
  (currentPage = "territory" /\ optimized) =>
    territoryData = handleOptimize(initialTerritoryData, flattenAEs(heap, appTree)).updated

----------------------------------------------------------------------------
(* Navigation *)

\* C29: in every state of the application the tree of App is the tree of the
\* tree table (the last one it had, while the territory page is shown), and
\* the tree the table shows after a navigation to the capacity page is the
\* tree it had before
C29_NoEditLost ==
  /\ appTree = root
  /\ (call.op = "navigate" /\ currentPage = "capacity") =>
       /\ root = prev.root
       /\ TreeValue(heap, root) = TreeValue(prev.heap, prev.root)

\* back on the capacity page from the territory page, with a tree that was
\* edited before the page was left
C29_Witness ==
  /\ call.op = "navigate"
  /\ currentPage = "capacity"
  /\ prev.currentPage = "territory"
  /\ ncalls > 0
  /\ TreeValue(heap, root) # TreeValue(orgHierarchy, 1)

----------------------------------------------------------------------------
(* Commits of an unchanged draft *)

\* the node the last commit named, in the tree before the commit
Committed ==
  prev.heap[CHOOSE a \in Rows(prev.heap, prev.root) : prev.heap[a].id = call.nodeId]

\* the last step committed, in a cell of the row of a node, the draft that a
\* click on the cell puts there
DraftUnchanged ==
  \/ /\ call.op = "commitHeadcount"
     /\ call.updater.value = commit(NumberCellDraft(Committed.headcount)).value
  \/ /\ call.op = "commitTargetCapacity"
     /\ call.updater.value = commit(NumberCellDraft(Committed.targetCapacity)).value
  \/ /\ call.op = "commitValidatedCapacity"
     /\ call.updater.value =
          Some(commit(ValidatedCellDraft(Committed.validatedCapacity)).value)

C30_SetValueNoOp ==
  (DraftUnchanged /\ (call.op = "commitValidatedCapacity" => Committed.validatedCapacity # Null)) =>
    TreeValue(heap, root) = TreeValue(prev.heap, prev.root)

====
